---- MODULE Spec2Model ----
(***************************************************************************)
(* The SPARQL editor of src/src/components/QueryEditor.js: the validator,  *)
(* the formatter and the editing handlers of EnhancedSparqlEditor.         *)
(*                                                                         *)
(* A JavaScript string is a sequence of one-character strings, so that     *)
(* substring search, trimming, splitting and the formatter's regular       *)
(* expression are computed character by character, as the code does.       *)
(* Messages shown to the user are opaque and are kept as TLA+ strings.     *)
(***************************************************************************)
EXTENDS Integers, Sequences, FiniteSets, TLC

(***************************************************************************)
(* Characters and the String methods the component uses.                   *)
(***************************************************************************)
NL == "\n"

LowerAlpha == <<"a","b","c","d","e","f","g","h","i","j","k","l","m","n","o","p","q","r","s","t","u","v",
       "w","x","y","z">>

UpperAlpha == <<"A","B","C","D","E","F","G","H","I","J","K","L","M","N","O","P","Q","R","S","T","U","V",
       "W","X","Y","Z">>

DigitChars == {"0", "1", "2", "3", "4", "5", "6", "7", "8", "9"}

LowerSet == {LowerAlpha[i] : i \in 1..Len(LowerAlpha)}

UpperSet == {UpperAlpha[i] : i \in 1..Len(UpperAlpha)}

UpperOf == [c \in LowerSet |-> UpperAlpha[CHOOSE i \in 1..Len(LowerAlpha) : LowerAlpha[i] = c]]

\* String.prototype.toUpperCase on one ASCII character.
toUpperCaseChar(c) == IF c \in LowerSet THEN UpperOf[c] ELSE c

\* String.prototype.toUpperCase.
toUpperCase(s) == [i \in 1..Len(s) |-> toUpperCaseChar(s[i])]

\* String.prototype.includes.
includes(s, sub) ==
  \E i \in 0..(Len(s) - Len(sub)) : \A j \in 1..Len(sub) : s[i + j] = sub[j]

\* String.prototype.startsWith.
startsWith(s, sub) == Len(sub) <= Len(s) /\ \A j \in 1..Len(sub) : s[j] = sub[j]

\* The characters String.prototype.trim removes (white space and line terminators).
isWhitespace(c) == c \in {" ", "\n", "\t", "\r"}

MinOf(S) == CHOOSE x \in S : \A y \in S : x <= y

MaxOf(S) == CHOOSE x \in S : \A y \in S : y <= x

\* String.prototype.trim: both ends.
trim(s) ==
  IF \A i \in 1..Len(s) : isWhitespace(s[i]) THEN << >>
  ELSE SubSeq(s,
              CHOOSE i \in 1..Len(s) :
                ~isWhitespace(s[i]) /\ \A k \in 1..(i - 1) : isWhitespace(s[k]),
              CHOOSE j \in 1..Len(s) :
                ~isWhitespace(s[j]) /\ \A k \in (j + 1)..Len(s) : isWhitespace(s[k]))

\* (s.match(/c/g) || []).length for a one-character pattern c.
matchCount(s, c) == Cardinality({i \in 1..Len(s) : s[i] = c})

\* s.split('\n')
RECURSIVE split(_)
split(s) ==
  LET nl == {i \in 1..Len(s) : s[i] = NL}
  IN  IF nl = {} THEN <<s>>
      ELSE <<SubSeq(s, 1, MinOf(nl) - 1)>> \o split(SubSeq(s, MinOf(nl) + 1, Len(s)))

\* lines.join('\n')
RECURSIVE join(_)
join(ls) ==
  IF Len(ls) = 0 THEN << >>
  ELSE IF Len(ls) = 1 THEN ls[1]
  ELSE ls[1] \o <<NL>> \o join(Tail(ls))

\* '  '.repeat(n)
RECURSIVE repeatIndent(_)
repeatIndent(n) == IF n <= 0 THEN << >> ELSE <<" ", " ">> \o repeatIndent(n - 1)

(***************************************************************************)
(* validateSparqlQuery                                                     *)
(***************************************************************************)
kwSELECT == <<"S","E","L","E","C","T">>

kwCONSTRUCT == <<"C","O","N","S","T","R","U","C","T">>

kwASK == <<"A","S","K">>

kwDESCRIBE == <<"D","E","S","C","R","I","B","E">>

kwWHERE == <<"W","H","E","R","E">>

kwLIMIT == <<"L","I","M","I","T">>

kwPREFIX == <<"P","R","E","F","I","X">>

DescribeWarning == "DESCRIBE query without WHERE clause might return large amounts of data"

LimitWarning == "Query does not have a LIMIT clause, which might return large result sets"

Invalid(msg) == [valid |-> FALSE, error |-> msg]

Valid(ws) == [valid |-> TRUE, warnings |-> ws]

\* queryTypeCheck with DESCRIBE required to come with WHERE like the other forms.
queryTypeCheckDescribeStrict(upperQuery) ==
  IF includes(upperQuery, kwSELECT) THEN
    IF ~includes(upperQuery, kwWHERE)
      THEN [returned |-> TRUE, error |-> "SELECT query must include a WHERE clause"]
      ELSE [returned |-> FALSE, warnings |-> << >>]
  ELSE IF includes(upperQuery, kwCONSTRUCT) THEN
    IF ~includes(upperQuery, kwWHERE)
      THEN [returned |-> TRUE, error |-> "CONSTRUCT query must include a WHERE clause"]
      ELSE [returned |-> FALSE, warnings |-> << >>]
  ELSE IF includes(upperQuery, kwASK) THEN
    IF ~includes(upperQuery, kwWHERE)
      THEN [returned |-> TRUE, error |-> "ASK query must include a WHERE clause"]
      ELSE [returned |-> FALSE, warnings |-> << >>]
  ELSE IF includes(upperQuery, kwDESCRIBE) THEN
    IF ~includes(upperQuery, kwWHERE)
      THEN [returned |-> TRUE, error |-> "DESCRIBE query must include a WHERE clause"]
      ELSE [returned |-> FALSE, warnings |-> << >>]
  ELSE [returned |-> TRUE,
        error |-> "Query must start with SELECT, CONSTRUCT, ASK, or DESCRIBE"]

\* The query-type chain of if / else if: either the error it returns or the
\* warnings it has pushed when control falls through to the brace check.
queryTypeCheck(upperQuery) ==
  IF includes(upperQuery, kwSELECT) THEN
    IF ~includes(upperQuery, kwWHERE)
      THEN [returned |-> TRUE, error |-> "SELECT query must include a WHERE clause"]
      ELSE [returned |-> FALSE, warnings |-> << >>]
  ELSE IF includes(upperQuery, kwCONSTRUCT) THEN
    IF ~includes(upperQuery, kwWHERE)
      THEN [returned |-> TRUE, error |-> "CONSTRUCT query must include a WHERE clause"]
      ELSE [returned |-> FALSE, warnings |-> << >>]
  ELSE IF includes(upperQuery, kwASK) THEN
    IF ~includes(upperQuery, kwWHERE)
      THEN [returned |-> TRUE, error |-> "ASK query must include a WHERE clause"]
      ELSE [returned |-> FALSE, warnings |-> << >>]
  ELSE IF includes(upperQuery, kwDESCRIBE) THEN
    IF ~includes(upperQuery, kwWHERE)
      THEN [returned |-> FALSE, warnings |-> <<DescribeWarning>>]
      ELSE [returned |-> FALSE, warnings |-> << >>]
  ELSE [returned |-> TRUE,
        error |-> "Query must start with SELECT, CONSTRUCT, ASK, or DESCRIBE"]

UnbalancedBraces(openBraces, closeBraces) ==
  "Unbalanced braces: " \o ToString(openBraces) \o " opening and "
     \o ToString(closeBraces) \o " closing braces"

\* validateSparqlQuery with the quote checks placed before the brace check.
validateQuotesFirst(query) ==
  IF query = << >> \/ trim(query) = << >> THEN Invalid("Query cannot be empty")
  ELSE
    LET upperQuery == toUpperCase(query)
        typed == queryTypeCheck(upperQuery)
        openBraces == matchCount(query, "{")
        closeBraces == matchCount(query, "}")
        doubleQuotes == matchCount(query, "\"")
        singleQuotes == matchCount(query, "'")
    IN  IF typed.returned THEN Invalid(typed.error)
        ELSE IF doubleQuotes % 2 # 0 THEN Invalid("Unclosed double quotes in query")
        ELSE IF singleQuotes % 2 # 0 THEN Invalid("Unclosed single quotes in query")
        ELSE IF openBraces # closeBraces
          THEN Invalid(UnbalancedBraces(openBraces, closeBraces))
        ELSE IF ~includes(upperQuery, kwLIMIT)
          THEN Valid(Append(typed.warnings, LimitWarning))
        ELSE Valid(typed.warnings)

validateSparqlQuery(query) ==
  IF query = << >> \/ trim(query) = << >> THEN Invalid("Query cannot be empty")
  ELSE
    LET upperQuery == toUpperCase(query)
        typed == queryTypeCheck(upperQuery)
        openBraces == matchCount(query, "{")
        closeBraces == matchCount(query, "}")
        doubleQuotes == matchCount(query, "\"")
        singleQuotes == matchCount(query, "'")
    IN  IF typed.returned THEN Invalid(typed.error)
        ELSE IF openBraces # closeBraces
          THEN Invalid(UnbalancedBraces(openBraces, closeBraces))
        ELSE IF doubleQuotes % 2 # 0 THEN Invalid("Unclosed double quotes in query")
        ELSE IF singleQuotes % 2 # 0 THEN Invalid("Unclosed single quotes in query")
        ELSE IF ~includes(upperQuery, kwLIMIT)
          THEN Valid(Append(typed.warnings, LimitWarning))
        ELSE Valid(typed.warnings)

(***************************************************************************)
(* formatSparqlQuery                                                       *)
(***************************************************************************)
keywords ==
  << <<"P","R","E","F","I","X">>, <<"S","E","L","E","C","T">>, <<"D","I","S","T","I","N","C","T">>, <<"C","O","N","S","T","R","U","C","T">>, <<"A","S","K">>, <<"D","E","S","C","R","I","B","E">>,
     <<"F","R","O","M">>, <<"W","H","E","R","E">>, <<"F","I","L","T","E","R">>, <<"O","P","T","I","O","N","A","L">>, <<"U","N","I","O","N">>, <<"M","I","N","U","S">>, <<"G","R","A","P","H">>,
     <<"S","E","R","V","I","C","E">>, <<"G","R","O","U","P"," ","B","Y">>, <<"H","A","V","I","N","G">>, <<"O","R","D","E","R"," ","B","Y">>, <<"L","I","M","I","T">>, <<"O","F","F","S","E","T">> >>

\* [a-z0-9_] under the i flag, which is also \w.
isWordChar(c) == c \in LowerSet \/ c \in UpperSet \/ c \in DigitChars \/ c = "_"

isWordAt(s, j) == j >= 1 /\ j <= Len(s) /\ isWordChar(s[j])

\* (?<!(PREFIX|[a-z0-9_])) at the position before s[i], under the i flag.
lookbehindFails(s, i) ==
  \/ isWordAt(s, i - 1)
  \/ /\ i - 1 >= Len(kwPREFIX)
     /\ \A j \in 1..Len(kwPREFIX) :
          toUpperCaseChar(s[i - 1 - Len(kwPREFIX) + j]) = kwPREFIX[j]

\* \b between s[j] and s[j + 1].
wordBoundaryAfter(s, j) == isWordAt(s, j) # isWordAt(s, j + 1)

\* The regular expression (?<!(PREFIX|[a-z0-9_]))keyword\b matches at s[i].
matchesAt(s, keyword, i) ==
  /\ i + Len(keyword) - 1 <= Len(s)
  /\ \A j \in 1..Len(keyword) : toUpperCaseChar(s[i + j - 1]) = keyword[j]
  /\ ~lookbehindFails(s, i)
  /\ wordBoundaryAfter(s, i + Len(keyword) - 1)

\* The replace with "\n" alone as the replacement, the keyword left out.
RECURSIVE replaceFromDroppingKeyword(_, _, _)
replaceFromDroppingKeyword(s, keyword, i) ==
  LET found == {m \in i..Len(s) : matchesAt(s, keyword, m)}
  IN  IF found = {} THEN SubSeq(s, i, Len(s))
      ELSE SubSeq(s, i, MinOf(found) - 1) \o <<NL>>
             \o replaceFromDroppingKeyword(s, keyword, MinOf(found) + Len(keyword))

\* formatted.replace(regex, `\n${keyword}`) with the g flag, scanning from s[i].
RECURSIVE replaceFrom(_, _, _)
replaceFrom(s, keyword, i) ==
  LET found == {m \in i..Len(s) : matchesAt(s, keyword, m)}
  IN  IF found = {} THEN SubSeq(s, i, Len(s))
      ELSE SubSeq(s, i, MinOf(found) - 1) \o <<NL>> \o keyword
             \o replaceFrom(s, keyword, MinOf(found) + Len(keyword))

\* keywords.forEach(...) from the k-th keyword on.
RECURSIVE breakBeforeKeywords(_, _)
breakBeforeKeywords(formatted, k) ==
  IF k > Len(keywords) THEN formatted
  ELSE breakBeforeKeywords(replaceFrom(formatted, keywords[k], 1), k + 1)

\* The forEach callback with the closing-brace decrement not clamped at 0.
indentLineUnclamped(st, line) ==
  LET trimmedLine == trim(line)
      closing == \E i \in 1..Len(trimmedLine) : trimmedLine[i] = "}"
      opening == \E i \in 1..Len(trimmedLine) : trimmedLine[i] = "{"
      level == IF closing THEN st.indentLevel - 1 ELSE st.indentLevel
  IN  IF trimmedLine = << >>
        THEN [indentLevel |-> st.indentLevel,
              formattedLines |-> Append(st.formattedLines, << >>)]
        ELSE [indentLevel |-> IF opening THEN level + 1 ELSE level,
              formattedLines |-> Append(st.formattedLines, repeatIndent(level) \o trimmedLine)]

\* One call of the lines.forEach callback: st holds indentLevel and formattedLines.
indentLine(st, line) ==
  LET trimmedLine == trim(line)
      closing == \E i \in 1..Len(trimmedLine) : trimmedLine[i] = "}"
      opening == \E i \in 1..Len(trimmedLine) : trimmedLine[i] = "{"
      level == IF closing
                 THEN (IF st.indentLevel - 1 > 0 THEN st.indentLevel - 1 ELSE 0)
                 ELSE st.indentLevel
  IN  IF trimmedLine = << >>
        THEN [indentLevel |-> st.indentLevel,
              formattedLines |-> Append(st.formattedLines, << >>)]
        ELSE [indentLevel |-> IF opening THEN level + 1 ELSE level,
              formattedLines |-> Append(st.formattedLines, repeatIndent(level) \o trimmedLine)]

RECURSIVE indentFrom(_, _, _)
indentFrom(ls, i, st) ==
  IF i > Len(ls) THEN st ELSE indentFrom(ls, i + 1, indentLine(st, ls[i]))

formatSparqlQuery(query) ==
  IF query = << >> THEN << >>
  ELSE join(indentFrom(split(breakBeforeKeywords(query, 1)), 1,
                       [indentLevel |-> 0, formattedLines |-> << >>]).formattedLines)

(***************************************************************************)
(* Static data of the component.                                           *)
(***************************************************************************)
commonPrefixes ==
  << [prefix |-> <<"r","d","f">>, uri |-> <<"h","t","t","p",":","/","/","w","w","w",".","w","3",".","o","r","g","/","1","9","9","9",
       "/","0","2","/","2","2","-","r","d","f","-","s","y","n","t","a","x","-","n","s","#">>],
     [prefix |-> <<"r","d","f","s">>, uri |-> <<"h","t","t","p",":","/","/","w","w","w",".","w","3",".","o","r","g","/","2","0","0","0",
       "/","0","1","/","r","d","f","-","s","c","h","e","m","a","#">>],
     [prefix |-> <<"o","w","l">>, uri |-> <<"h","t","t","p",":","/","/","w","w","w",".","w","3",".","o","r","g","/","2","0","0","2",
       "/","0","7","/","o","w","l","#">>],
     [prefix |-> <<"x","s","d">>, uri |-> <<"h","t","t","p",":","/","/","w","w","w",".","w","3",".","o","r","g","/","2","0","0","1",
       "/","X","M","L","S","c","h","e","m","a","#">>],
     [prefix |-> <<"f","o","a","f">>, uri |-> <<"h","t","t","p",":","/","/","x","m","l","n","s",".","c","o","m","/","f","o","a","f","/",
       "0",".","1","/">>],
     [prefix |-> <<"d","c">>, uri |-> <<"h","t","t","p",":","/","/","p","u","r","l",".","o","r","g","/","d","c","/","e","l","e",
       "m","e","n","t","s","/","1",".","1","/">>],
     [prefix |-> <<"d","c","t">>, uri |-> <<"h","t","t","p",":","/","/","p","u","r","l",".","o","r","g","/","d","c","/","t","e","r",
       "m","s","/">>],
     [prefix |-> <<"s","k","o","s">>, uri |-> <<"h","t","t","p",":","/","/","w","w","w",".","w","3",".","o","r","g","/","2","0","0","4",
       "/","0","2","/","s","k","o","s","/","c","o","r","e","#">>],
     [prefix |-> <<"e","p","o">>, uri |-> <<"h","t","t","p",":","/","/","d","a","t","a",".","e","u","r","o","p","a",".","e","u","/",
       "a","4","g","/","o","n","t","o","l","o","g","y","#">>] >>

basicQuery ==
  <<"P","R","E","F","I","X"," ","r","d","f",":"," ","<","h","t","t","p",":","/","/","w","w",
       "w",".","w","3",".","o","r","g","/","1","9","9","9","/","0","2","/","2","2","-","r","d",
       "f","-","s","y","n","t","a","x","-","n","s","#",">","\n","P","R","E","F","I","X"," ",
       "r","d","f","s",":"," ","<","h","t","t","p",":","/","/","w","w","w",".","w","3",".","o",
       "r","g","/","2","0","0","0","/","0","1","/","r","d","f","-","s","c","h","e","m","a","#",
       ">","\n","\n","S","E","L","E","C","T"," ","?","s","u","b","j","e","c","t"," ","?","p",
       "r","e","d","i","c","a","t","e"," ","?","o","b","j","e","c","t","\n","W","H","E","R",
       "E"," ","{","\n"," "," ","?","s","u","b","j","e","c","t"," ","?","p","r","e","d","i",
       "c","a","t","e"," ","?","o","b","j","e","c","t"," ",".","\n"," "," ","\n"," "," ","#",
       " ","A","d","d"," ","y","o","u","r"," ","c","o","n","d","i","t","i","o","n","s"," ","h",
       "e","r","e","\n"," "," ","\n","}"," ","L","I","M","I","T"," ","1","0","0">>

EndpointError == "Please provide a SPARQL endpoint URL"

(***************************************************************************)
(* The editor helpers as functions of the current query.                   *)
(***************************************************************************)
\* (s.match(/\n/g) || []).length + 1
countLines(s) == matchCount(s, NL) + 1

\* `PREFIX ${prefix}:`
prefixMarker(prefix) == kwPREFIX \o <<" ">> \o prefix \o <<":">>

\* `PREFIX ${prefix}: <${uri}>\n`
prefixDeclaration(prefix, uri) ==
  kwPREFIX \o <<" ">> \o prefix \o <<":", " ", "<">> \o uri \o <<">", NL>>

\* The for loop of addPrefix, with 1-based line numbers: 0 when no line is a prefix line.
lastPrefixIndex(ls) ==
  LET hits == {i \in 1..Len(ls) : startsWith(toUpperCase(trim(ls[i])), kwPREFIX)}
  IN  IF hits = {} THEN 0 ELSE MaxOf(hits)

\* updatedQuery of addPrefix, or the query itself when the if is not entered.
addPrefixQuery(query, prefix, uri) ==
  IF ~includes(query, prefixMarker(prefix)) THEN
    LET ls == split(query)
        k == lastPrefixIndex(ls)
    IN  join(SubSeq(ls, 1, k) \o <<prefixDeclaration(prefix, uri)>> \o SubSeq(ls, k + 1, Len(ls)))
  ELSE query

\* addLimit looking for LIMIT in the query as typed, without toUpperCase.
addLimitCaseSensitive(query) ==
  IF ~includes(query, kwLIMIT)
    THEN trim(query) \o <<"\n","L","I","M","I","T"," ","1","0","0">>
    ELSE query

\* updatedQuery of addLimit, or the query itself when the if is not entered.
addLimitQuery(query) ==
  IF ~includes(toUpperCase(query), kwLIMIT)
    THEN trim(query) \o <<"\n","L","I","M","I","T"," ","1","0","0">>
    ELSE query

(***************************************************************************)
(* Bounds and inputs.                                                      *)
(***************************************************************************)
MaxFrags == 3

MaxEdits == 2

MaxPrefixButtons == 2

RECURSIVE concatAll(_)
concatAll(fs) == IF Len(fs) = 0 THEN << >> ELSE fs[1] \o concatAll(Tail(fs))

\* Every concatenation of at most MaxFrags pieces of F.
Inputs(F) == {concatAll(fs) : fs \in UNION {[1..n -> F] : n \in 0..MaxFrags}}

\* The pieces of the queries validateSparqlQuery is applied to.
ValidateFragments ==
  { <<" ">>, <<"\n">>, <<"x">>, <<"{">>, <<"}">>, <<"\"">>, <<"'">>, <<"S","E","L","E","C","T">>, <<"C","O","N","S","T","R","U","C","T">>, <<"A","s","k">>,
    <<"D","E","S","C","R","I","B","E">>, <<"w","h","e","r","e">>, <<"L","I","M","I","T">> }

\* The pieces of the queries formatSparqlQuery is applied to.
FormatFragments ==
  { <<" ">>, <<"\n">>, <<"x">>, <<"{">>, <<"}">>, <<"\"">>, <<"S","E","L","E","C","T">>, <<"w","h","e","r","e">>, <<"D","E","S","C","R","I","B","E">>,
    <<"l","i","m","i","t">> }

\* The pieces of the queries addLimit and addPrefix are applied to.
EditFragments ==
  { <<" ">>, <<"\n">>, <<"x">>, <<"S","E","L","E","C","T">>, <<"L","i","m","i","t">>, <<"P","R","E","F","I","X"," ","r","d","f",":">>, <<"p","r","e","f","i","x">>, <<"P","R","E","F","I","X">> }

\* What the user types into the textarea during a session.
TypedQueries ==
  { << >>,
    <<"A","S","K">>,
    <<"S","E","L","E","C","T"," ","x"," ","{">>,
    <<"S","E","L","E","C","T"," ","x"," ","{","}">>,
    <<"s","e","l","e","c","t"," ","x"," ","w","h","e","r","e","{","}">>,
    <<" "," ","D","E","S","C","R","I","B","E"," ","x"," ">>,
    <<"S","E","L","E","C","T"," ","w","h","e","r","e"," ","{">>,
    <<"P","R","E","F","I","X"," ","r","d","f",":"," ","<","u",">","\n","A","s","k"," ","w",
       "h","e","r","e","{"," ","x"," ","}","\n","L","I","M","I","T"," ","1">> }

\* queryTemplates[selectedTemplate] || '' : the templates live outside this file.
TemplateQueries ==
  { << >>,
    <<"S","E","L","E","C","T"," ","?","s"," ","W","H","E","R","E"," ","{"," ","?","s"," ","?",
       "p"," ","?","o"," ","}"," ","L","I","M","I","T"," ","1","0">>,
    <<"D","E","S","C","R","I","B","E"," ","<","r",">">> }

Endpoints == {"", "https://dbpedia.org/sparql"}

PrefixButtons == 1..MaxPrefixButtons

(***************************************************************************)
(* State.                                                                  *)
(***************************************************************************)
VARIABLES
  query,            \* the query prop, replaced through setQuery
  sparqlEndpoint,   \* the sparqlEndpoint prop, replaced through setSparqlEndpoint
  validationResult, \* useState({ valid: true, warnings: [] })
  lineCount,        \* useState(1)
  onExecuteCalled,  \* the handler that ran last called onExecute()
  edits,            \* prefix, format and limit edits since the query was last replaced
  arg,              \* the query a function of the file is applied to
  fn,               \* which function is being applied, and where it is
  pfx,              \* the commonPrefixes entry addPrefix is applied with
  ret,              \* what the function returned
  lines,            \* formatSparqlQuery: lines
  lineIdx,          \* formatSparqlQuery: the forEach position
  indentLevel,      \* formatSparqlQuery: indentLevel
  formattedLines    \* formatSparqlQuery: formattedLines

sessionVars == <<query, sparqlEndpoint, validationResult, lineCount, onExecuteCalled, edits>>

fnVars == <<arg, fn, pfx, ret, lines, lineIdx, indentLevel, formattedLines>>

vars == <<query, sparqlEndpoint, validationResult, lineCount, onExecuteCalled, edits,
          arg, fn, pfx, ret, lines, lineIdx, indentLevel, formattedLines>>

SessionInit ==
  /\ query = << >>
  /\ sparqlEndpoint = ""
  /\ validationResult = Valid(<< >>)
  /\ lineCount = 1
  /\ onExecuteCalled = FALSE
  /\ edits = 0

FnIdle ==
  /\ fn = "idle"
  /\ pfx = 0
  /\ ret = << >>
  /\ lines = << >>
  /\ lineIdx = 0
  /\ indentLevel = 0
  /\ formattedLines = << >>

(***************************************************************************)
(* The editing session: one action per event handler.                      *)
(***************************************************************************)
Init == SessionInit /\ arg = << >> /\ FnIdle

\* onChange of the endpoint field.
SetSparqlEndpoint(e) ==
  /\ sparqlEndpoint' = e
  /\ onExecuteCalled' = FALSE
  /\ UNCHANGED <<query, validationResult, lineCount, edits>>

\* handleQueryChange validating from 10 characters on instead of from 11.
HandleQueryChangeFromTen(newQuery) ==
  /\ query' = newQuery
  /\ lineCount' = countLines(newQuery)
  /\ validationResult' = IF Len(newQuery) >= 10 THEN validateSparqlQuery(newQuery)
                                                ELSE validationResult
  /\ onExecuteCalled' = FALSE
  /\ edits' = 0
  /\ UNCHANGED sparqlEndpoint

HandleQueryChange(newQuery) ==
  /\ query' = newQuery
  /\ lineCount' = countLines(newQuery)
  /\ validationResult' = IF Len(newQuery) > 10 THEN validateSparqlQuery(newQuery)
                                               ELSE validationResult
  /\ onExecuteCalled' = FALSE
  /\ edits' = 0
  /\ UNCHANGED sparqlEndpoint

HandleTemplateChange(templateQuery) ==
  /\ query' = templateQuery
  /\ lineCount' = countLines(templateQuery)
  /\ validationResult' = IF templateQuery # << >> THEN validateSparqlQuery(templateQuery)
                                                  ELSE validationResult
  /\ onExecuteCalled' = FALSE
  /\ edits' = 0
  /\ UNCHANGED sparqlEndpoint

\* handleExecuteQuery without the endpoint check.
HandleExecuteQueryAnyEndpoint ==
  /\ UNCHANGED <<query, sparqlEndpoint, lineCount, edits>>
  /\ validationResult' = validateSparqlQuery(query)
  /\ onExecuteCalled' = validateSparqlQuery(query).valid

HandleExecuteQuery ==
  /\ UNCHANGED <<query, sparqlEndpoint, lineCount, edits>>
  /\ IF sparqlEndpoint = ""
       THEN /\ validationResult' = Invalid(EndpointError)
            /\ onExecuteCalled' = FALSE
       ELSE /\ validationResult' = validateSparqlQuery(query)
            /\ onExecuteCalled' = validateSparqlQuery(query).valid

AddPrefix(i) ==
  /\ IF ~includes(query, prefixMarker(commonPrefixes[i].prefix))
       THEN /\ edits < MaxEdits
            /\ query' = addPrefixQuery(query, commonPrefixes[i].prefix, commonPrefixes[i].uri)
            /\ lineCount' = countLines(query')
            /\ edits' = edits + 1
       ELSE UNCHANGED <<query, lineCount, edits>>
  /\ onExecuteCalled' = FALSE
  /\ UNCHANGED <<sparqlEndpoint, validationResult>>

HandleFormatQuery ==
  /\ edits < MaxEdits
  /\ query' = formatSparqlQuery(query)
  /\ lineCount' = countLines(query')
  /\ edits' = edits + 1
  /\ onExecuteCalled' = FALSE
  /\ UNCHANGED <<sparqlEndpoint, validationResult>>

AddBasicStructure ==
  /\ IF trim(query) = << >>
       THEN /\ query' = basicQuery
            /\ lineCount' = countLines(basicQuery)
            /\ edits' = 0
       ELSE UNCHANGED <<query, lineCount, edits>>
  /\ onExecuteCalled' = FALSE
  /\ UNCHANGED <<sparqlEndpoint, validationResult>>

\* addLimit without its setLineCount call.
AddLimitKeepingLineCount ==
  /\ IF ~includes(toUpperCase(query), kwLIMIT)
       THEN /\ edits < MaxEdits
            /\ query' = addLimitQuery(query)
            /\ edits' = edits + 1
       ELSE UNCHANGED <<query, edits>>
  /\ onExecuteCalled' = FALSE
  /\ UNCHANGED <<sparqlEndpoint, validationResult, lineCount>>

AddLimit ==
  /\ IF ~includes(toUpperCase(query), kwLIMIT)
       THEN /\ edits < MaxEdits
            /\ query' = addLimitQuery(query)
            /\ lineCount' = countLines(query')
            /\ edits' = edits + 1
       ELSE UNCHANGED <<query, lineCount, edits>>
  /\ onExecuteCalled' = FALSE
  /\ UNCHANGED <<sparqlEndpoint, validationResult>>

TypeEndpoint == \E e \in Endpoints : SetSparqlEndpoint(e) /\ UNCHANGED fnVars

TypeQuery == \E q \in TypedQueries : HandleQueryChange(q) /\ UNCHANGED fnVars

SelectTemplate == \E t \in TemplateQueries : HandleTemplateChange(t) /\ UNCHANGED fnVars

ClickExecute == HandleExecuteQuery /\ UNCHANGED fnVars

ClickPrefix == \E i \in PrefixButtons : AddPrefix(i) /\ UNCHANGED fnVars

ClickFormat == HandleFormatQuery /\ UNCHANGED fnVars

ClickBasicStructure == AddBasicStructure /\ UNCHANGED fnVars

ClickLimit == AddLimit /\ UNCHANGED fnVars

Next ==
  \/ TypeEndpoint
  \/ TypeQuery
  \/ SelectTemplate
  \/ ClickExecute
  \/ ClickPrefix
  \/ ClickFormat
  \/ ClickBasicStructure
  \/ ClickLimit

Spec == Init /\ [][Next]_vars

(***************************************************************************)
(* The functions of the file applied to one query: validateSparqlQuery,    *)
(* addLimit and addPrefix as functions of the query, and formatSparqlQuery *)
(* with its lines.forEach loop taken one line at a time.                   *)
(***************************************************************************)
CallValidate ==
  /\ fn = "idle"
  /\ fn' = "validate"
  /\ ret' = validateSparqlQuery(arg)
  /\ UNCHANGED <<arg, pfx, lines, lineIdx, indentLevel, formattedLines>>
  /\ UNCHANGED sessionVars

CallAddLimit ==
  /\ fn = "idle"
  /\ fn' = "addLimit"
  /\ ret' = addLimitQuery(arg)
  /\ UNCHANGED <<arg, pfx, lines, lineIdx, indentLevel, formattedLines>>
  /\ UNCHANGED sessionVars

CallAddPrefix ==
  /\ fn = "idle"
  /\ \E i \in PrefixButtons :
       /\ pfx' = i
       /\ ret' = addPrefixQuery(arg, commonPrefixes[i].prefix, commonPrefixes[i].uri)
  /\ fn' = "addPrefix"
  /\ UNCHANGED <<arg, lines, lineIdx, indentLevel, formattedLines>>
  /\ UNCHANGED sessionVars

\* formatSparqlQuery up to the forEach: the early return, or the keyword pass and the split.
CallFormat ==
  /\ fn = "idle"
  /\ IF arg = << >>
       THEN /\ fn' = "formatted"
            /\ ret' = << >>
            /\ UNCHANGED <<lines, lineIdx, indentLevel, formattedLines>>
       ELSE /\ fn' = "format"
            /\ lines' = split(breakBeforeKeywords(arg, 1))
            /\ lineIdx' = 1
            /\ indentLevel' = 0
            /\ formattedLines' = << >>
            /\ UNCHANGED ret
  /\ UNCHANGED <<arg, pfx>>
  /\ UNCHANGED sessionVars

\* One call of the forEach callback.
FormatLine ==
  /\ fn = "format"
  /\ lineIdx <= Len(lines)
  /\ LET st == indentLine([indentLevel |-> indentLevel, formattedLines |-> formattedLines],
                          lines[lineIdx])
     IN  /\ indentLevel' = st.indentLevel
         /\ formattedLines' = st.formattedLines
  /\ lineIdx' = lineIdx + 1
  /\ UNCHANGED <<arg, fn, pfx, ret, lines>>
  /\ UNCHANGED sessionVars

\* return formattedLines.join('\n')
FormatReturn ==
  /\ fn = "format"
  /\ lineIdx > Len(lines)
  /\ ret' = join(formattedLines)
  /\ fn' = "formatted"
  /\ UNCHANGED <<arg, pfx, lines, lineIdx, indentLevel, formattedLines>>
  /\ UNCHANGED sessionVars

InitValidate == SessionInit /\ arg \in Inputs(ValidateFragments) /\ FnIdle

NextValidate == CallValidate

SpecValidate == InitValidate /\ [][NextValidate]_vars

InitEdit == SessionInit /\ arg \in Inputs(EditFragments) /\ FnIdle

NextEdit ==
  \/ CallAddLimit
  \/ CallAddPrefix

SpecEdit == InitEdit /\ [][NextEdit]_vars

InitFormat == SessionInit /\ arg \in Inputs(FormatFragments) /\ FnIdle

NextFormat ==
  \/ CallFormat
  \/ FormatLine
  \/ FormatReturn

SpecFormat == InitFormat /\ [][NextFormat]_vars

\* The loop taken line by line returns what formatSparqlQuery returns.
FormatLoopAgrees == fn = "formatted" => ret = formatSparqlQuery(arg)

(***************************************************************************)
(* Claims about validateSparqlQuery, under SpecValidate.                   *)
(***************************************************************************)
occursIn(q, keyword) == includes(toUpperCase(q), keyword)

blank(q) == \A i \in 1..Len(q) : isWhitespace(q[i])

braces(q) == <<Cardinality({i \in 1..Len(q) : q[i] = "{"}),
               Cardinality({i \in 1..Len(q) : q[i] = "}"})>>

oddCount(q, c) == Cardinality({i \in 1..Len(q) : q[i] = c}) % 2 = 1

\* The form that must come with WHERE: the first of SELECT, CONSTRUCT, ASK that occurs.
whereForm(q) ==
  IF occursIn(q, kwSELECT) THEN "SELECT"
  ELSE IF occursIn(q, kwCONSTRUCT) THEN "CONSTRUCT"
  ELSE IF occursIn(q, kwASK) THEN "ASK"
  ELSE "none"

describeForm(q) == whereForm(q) = "none" /\ occursIn(q, kwDESCRIBE)

\* C2: validate returns Invalid with the message of the first failing rule, in the
\* order empty, no query form, form without WHERE, unbalanced braces (with both
\* counts), odd double quotes, odd single quotes; and Valid iff no rule fails.
C2_FirstFailingRule ==
  fn = "validate" =>
    IF blank(arg) THEN ret = [valid |-> FALSE, error |-> "Query cannot be empty"]
    ELSE IF whereForm(arg) = "none" /\ ~occursIn(arg, kwDESCRIBE)
      THEN ret = [valid |-> FALSE,
                  error |-> "Query must start with SELECT, CONSTRUCT, ASK, or DESCRIBE"]
    ELSE IF whereForm(arg) # "none" /\ ~occursIn(arg, kwWHERE)
      THEN ret = [valid |-> FALSE,
                  error |-> whereForm(arg) \o " query must include a WHERE clause"]
    ELSE IF braces(arg)[1] # braces(arg)[2]
      THEN ret = [valid |-> FALSE,
                  error |-> "Unbalanced braces: " \o ToString(braces(arg)[1])
                            \o " opening and " \o ToString(braces(arg)[2])
                            \o " closing braces"]
    ELSE IF oddCount(arg, "\"")
      THEN ret = [valid |-> FALSE, error |-> "Unclosed double quotes in query"]
    ELSE IF oddCount(arg, "'")
      THEN ret = [valid |-> FALSE, error |-> "Unclosed single quotes in query"]
    ELSE ret.valid = TRUE

\* A query with unbalanced braces and an odd number of double quotes has been validated
\* and reports the braces.
C2_Witness ==
  /\ fn = "validate"
  /\ braces(arg) = <<1, 0>>
  /\ oddCount(arg, "\"")
  /\ ret = [valid |-> FALSE,
            error |-> "Unbalanced braces: 1 opening and 0 closing braces"]

\* C3: a Valid result carries a warnings sequence holding exactly the DESCRIBE warning
\* (iff the form is DESCRIBE and WHERE is absent) followed by the LIMIT warning (iff
\* LIMIT is absent); a DESCRIBE query is never Invalid for lacking WHERE.
C3_Warnings ==
  fn = "validate" =>
    /\ ret.valid =>
         /\ DOMAIN ret = {"valid", "warnings"}
         /\ ret.warnings =
              (IF describeForm(arg) /\ ~occursIn(arg, kwWHERE)
                 THEN <<"DESCRIBE query without WHERE clause might return large amounts of data">>
                 ELSE << >>)
              \o (IF ~occursIn(arg, kwLIMIT)
                    THEN <<"Query does not have a LIMIT clause, which might return large result sets">>
                    ELSE << >>)
    /\ (describeForm(arg) /\ ~occursIn(arg, kwWHERE) /\ braces(arg)[1] = braces(arg)[2]
          /\ ~oddCount(arg, "\"") /\ ~oddCount(arg, "'")) => ret.valid

\* A DESCRIBE query without WHERE and without LIMIT has been validated: both warnings.
C3_Witness ==
  /\ fn = "validate"
  /\ describeForm(arg)
  /\ ret.valid
  /\ Len(ret.warnings) = 2

(***************************************************************************)
(* Claims about addLimit and addPrefix, under SpecEdit.                    *)
(***************************************************************************)
limitClause == <<"\n","L","I","M","I","T"," ","1","0","0">>

\* p is q without its trailing white space, the leading characters untouched.
strippedAtEnd(q, p) ==
  \E j \in 0..Len(q) :
    /\ p = SubSeq(q, 1, j)
    /\ \A k \in (j + 1)..Len(q) : isWhitespace(q[k])
    /\ (j = 0 \/ ~isWhitespace(q[j]))

\* p is q without its leading and its trailing white space.
strippedAtBothEnds(q, p) ==
  \E i \in 1..(Len(q) + 1), j \in 0..Len(q) :
    /\ p = SubSeq(q, i, j)
    /\ \A k \in 1..(i - 1) : isWhitespace(q[k])
    /\ \A k \in (j + 1)..Len(q) : isWhitespace(q[k])
    /\ (j < i \/ (~isWhitespace(q[i]) /\ ~isWhitespace(q[j])))

endsWithLimitClause(r) ==
  /\ Len(r) >= Len(limitClause)
  /\ SubSeq(r, Len(r) - Len(limitClause) + 1, Len(r)) = limitClause

beforeLimitClause(r) == SubSeq(r, 1, Len(r) - Len(limitClause))

\* C5 as stated: add-limit returns the query unchanged when LIMIT occurs in it (in any
\* case); otherwise the query with only its trailing white space removed, then a
\* newline and LIMIT 100.
C5_TrailingOnly ==
  fn = "addLimit" =>
    IF occursIn(arg, kwLIMIT) THEN ret = arg
    ELSE endsWithLimitClause(ret) /\ strippedAtEnd(arg, beforeLimitClause(ret))

\* C5 amended: add-limit returns the query unchanged when LIMIT occurs in it (in any
\* case); otherwise the query with its leading and its trailing white space removed,
\* then a newline and LIMIT 100.
C5_BothEnds ==
  fn = "addLimit" =>
    IF occursIn(arg, kwLIMIT) THEN ret = arg
    ELSE endsWithLimitClause(ret) /\ strippedAtBothEnds(arg, beforeLimitClause(ret))

\* add-limit has been applied to a query without LIMIT that starts with white space
\* and holds more than white space.
C5_Witness ==
  /\ fn = "addLimit"
  /\ ~occursIn(arg, kwLIMIT)
  /\ ~blank(arg)
  /\ isWhitespace(arg[1])
  /\ endsWithLimitClause(ret)

\* The last line of ls that is a prefix line, 0 when there is none.
lastPrefixLine(ls) ==
  IF \E i \in 1..Len(ls) : startsWith(toUpperCase(trim(ls[i])), kwPREFIX)
    THEN CHOOSE i \in 1..Len(ls) :
           /\ startsWith(toUpperCase(trim(ls[i])), kwPREFIX)
           /\ \A k \in (i + 1)..Len(ls) : ~startsWith(toUpperCase(trim(ls[k])), kwPREFIX)
    ELSE 0

declarationLine(p) ==
  kwPREFIX \o <<" ">> \o p.prefix \o <<":", " ", "<">> \o p.uri \o <<">">>

\* C6: add-prefix returns the query unchanged when it holds PREFIX name: ; otherwise
\* the lines of the result are the lines of the query, in order, with exactly one more
\* line, the declaration, right after the last prefix line (first when there is none).
C6_OneLineAdded ==
  fn = "addPrefix" =>
    IF includes(arg, kwPREFIX \o <<" ">> \o commonPrefixes[pfx].prefix \o <<":">>)
      THEN ret = arg
      ELSE split(ret) = SubSeq(split(arg), 1, lastPrefixLine(split(arg)))
                          \o <<declarationLine(commonPrefixes[pfx])>>
                          \o SubSeq(split(arg), lastPrefixLine(split(arg)) + 1,
                                    Len(split(arg)))

(***************************************************************************)
(* Claims about formatSparqlQuery, under SpecFormat.                       *)
(***************************************************************************)
\* C4: format(format(x)) = format(x) for every query x.
C4_FormatIdempotent == fn = "formatted" => formatSparqlQuery(ret) = ret

holds(t, c) == \E i \in 1..Len(t) : t[i] = c

spaces(n) == [i \in 1..n |-> " "]

\* The level a line is emitted at: one less than the current level, not below 0, when
\* the trimmed line t holds a closing brace.
emitLevel(level, t) ==
  IF holds(t, "}") THEN (IF level >= 1 THEN level - 1 ELSE 0) ELSE level

\* C7: in the re-indent pass the level starts at 0 and is never negative; a line that
\* is empty once trimmed is emitted empty and leaves the level alone; any other line is
\* emitted as two spaces per level and the trimmed line, at the level after one
\* clamped decrement if it holds a closing brace, and the level goes up by one after
\* the line if it holds an opening brace.
C7_IndentPass ==
  /\ [](fn = "format" => indentLevel >= 0)
  /\ [][(fn = "idle" /\ fn' = "format") => (indentLevel' = 0 /\ formattedLines' = << >>)]_vars
  /\ [][(fn = "format" /\ lineIdx' = lineIdx + 1) =>
          IF trim(lines[lineIdx]) = << >>
            THEN /\ formattedLines' = Append(formattedLines, << >>)
                 /\ indentLevel' = indentLevel
            ELSE /\ formattedLines' =
                      Append(formattedLines,
                             spaces(2 * emitLevel(indentLevel, trim(lines[lineIdx])))
                               \o trim(lines[lineIdx]))
                 /\ indentLevel' =
                      emitLevel(indentLevel, trim(lines[lineIdx]))
                        + (IF holds(trim(lines[lineIdx]), "{") THEN 1 ELSE 0)]_vars

\* The first line, holding a closing and an opening brace, has been emitted at level 0:
\* the decrement was clamped and the level is 1 for the next line.
C7_Witness ==
  /\ fn = "format"
  /\ lineIdx = 2
  /\ holds(lines[1], "}")
  /\ holds(lines[1], "{")
  /\ formattedLines = <<trim(lines[1])>>
  /\ indentLevel = 1

\* C10: validate(format(x)) is validate(x): the same tag, the same error message with
\* the same brace counts, the same warnings.
C10_FormatKeepsVerdict ==
  fn = "formatted" => validateSparqlQuery(ret) = validateSparqlQuery(arg)

\* A query with one unmatched opening brace has been formatted into a different string.
C10_Witness ==
  /\ fn = "formatted"
  /\ ret # arg
  /\ validateSparqlQuery(arg) =
       [valid |-> FALSE, error |-> "Unbalanced braces: 1 opening and 0 closing braces"]

(***************************************************************************)
(* Claims about the editing session, under Spec.                           *)
(***************************************************************************)
newlines(q) == Cardinality({i \in 1..Len(q) : q[i] = NL})

\* C1: an execution attempt calls onExecute only if the endpoint is not empty and the
\* query validates; with an empty endpoint onExecute is not called and the stored
\* result is an Invalid result the validator did not produce; with an endpoint and an
\* invalid query onExecute is not called and the stored result is the validator's.
C1_ExecuteGate ==
  [][HandleExecuteQuery =>
       /\ onExecuteCalled' => (sparqlEndpoint # "" /\ validateSparqlQuery(query).valid)
       /\ sparqlEndpoint = "" =>
            /\ ~onExecuteCalled'
            /\ validationResult'.valid = FALSE
            /\ \A q \in {query} \cup TypedQueries \cup TemplateQueries :
                 validationResult' # validateSparqlQuery(q)
       /\ (sparqlEndpoint # "" /\ ~validateSparqlQuery(query).valid) =>
            /\ ~onExecuteCalled'
            /\ validationResult' = validateSparqlQuery(query)]_vars

\* Execution of a query that validates has been refused for the empty endpoint.
C1_Witness ==
  /\ sparqlEndpoint = ""
  /\ validateSparqlQuery(query).valid
  /\ validationResult = [valid |-> FALSE, error |-> "Please provide a SPARQL endpoint URL"]
  /\ ~onExecuteCalled

C9_TypingValidates ==
  [][\A q \in TypedQueries :
       HandleQueryChange(q) =>
         /\ query' = q
         /\ lineCount' = newlines(q) + 1
         /\ IF Len(q) > 10 THEN validationResult' = validateSparqlQuery(q)
                           ELSE validationResult' = validationResult]_vars

\* A query of exactly 10 characters has been typed over a verdict of an earlier query.
C9_Witness ==
  /\ Len(query) = 10
  /\ edits = 0
  /\ validationResult.valid = FALSE
  /\ validationResult.error # "Please provide a SPARQL endpoint URL"
  /\ validationResult # validateSparqlQuery(query)

====
